---------------------------- MODULE Spec2Model ----------------------------
(***************************************************************************)
(* Model of crud/src/update_data.rs of genshin_dictionary: the dictionary  *)
(* refresh (update_dictionary), the chunked concurrent writer              *)
(* (insert_items), the duplicate reconciliation (delete_duplicated_items)  *)
(* and the table reset (truncate_table), over the one table                *)
(* dictionary_items.                                                       *)
(*                                                                         *)
(* The specifications share the variables:                                 *)
(*   Spec       one run of update_dictionary against a table with some     *)
(*              prior content;                                             *)
(*   SpecFair   Spec with the fairness of the steps of insert_items;       *)
(*   SpecRecon  the setting of test_delete_duplicate: rows are inserted    *)
(*              directly and delete_duplicated_items is run on whatever    *)
(*              the table holds;                                           *)
(*   SpecTwice  update_dictionary invoked again after it returned, the     *)
(*              remote snapshots unchanged;                                *)
(*   SpecOverlap two invocations of update_dictionary that overlap on the  *)
(*              same table.                                                *)
(***************************************************************************)
EXTENDS Integers, Sequences, FiniteSets, Bags, TLC

(***************************************************************************)
(* Bounds.                                                                 *)
(***************************************************************************)
\* Number of variants of the Language enum (model crate), numbered 1..NumLangs
\* in definition order, which is also the order of the Postgres enum that
\* ORDER BY language sorts by.
NumLangs == 2
\* vocabulary_id ranges over 1..MaxId.
MaxId == 3
\* The chunk size of insert_items (update_data.rs:82 uses 50), scaled down.
ChunkSize == 2
\* Rows a test inserts directly before it runs the reconciliation.
MaxRows == 3
\* Runs of update_dictionary that reset the table, one after the other.
MaxRuns == 2

Langs == 1..NumLangs
Ids == 1..MaxId
\* Translation texts.  ", " is the separator STRING_AGG puts between the
\* translations, so "a, b" is a text that contains the separator.
Texts == {"a", "b", "a, b"}
\* Text of the rows the table may hold before a refresh.
StaleText == "old"

VARIABLES
    table,     \* dictionary_items: a bag of rows (the table has no key)
    order,     \* iteration order of the HashMap LANGUAGE_URL_MAPPING
    pc,        \* position of update_dictionary; "test" in SpecRecon
    li,        \* index in order of the language the loop is at
    map,       \* the map fetched for the current language
    pending,   \* keys of map that no chunk has taken yet
    batch,     \* keys of the chunk given to try_join_all
    inflight,  \* keys of the chunk whose insert future has not finished
    failed,    \* keys of the chunk whose insert returned an error
    barPos,    \* position of the progress bar
    result,    \* what update_dictionary returned, NoResult before it returns
    fetched,   \* history: the languages whose fetch was issued, in order
    written,   \* history: the languages whose insert_items returned Ok
    counts,    \* history: the count insert_items returned, per language
    snap,      \* history: the map fetched per language
    resets,    \* history: number of TRUNCATE statements executed
    ndedup,    \* history: number of reconciliation statements executed
    pre,       \* history: the table as the reconciliation found it
    sig,       \* history: the translations the reconciliation aggregated
    reconciled \* the table is as a reconciliation of pre, aggregating sig, left it

vars == <<table, order, pc, li, map, pending, batch, inflight, failed, barPos,
          result, fetched, written, counts, snap, resets, ndedup, pre, sig,
          reconciled>>

writerVars == <<map, pending, batch, inflight, failed, barPos>>
histVars == <<fetched, written, counts, snap, resets, ndedup, pre, sig, reconciled>>

(***************************************************************************)
(* Rows and tables.                                                        *)
(***************************************************************************)
Row(i, l, s) == [vocabulary_id |-> i, language |-> l, vocabulary_translation |-> s]

AllRows == {Row(i, l, s) : i \in Ids, l \in Langs, s \in Texts}

\* The rows of table t in language l, as a bag.
RowsOfLang(t, l) ==
    [r \in {x \in BagToSet(t) : x.language = l} |-> t[r]]

\* The vocabulary_ids present in t.
IdsIn(t) == {r.vocabulary_id : r \in BagToSet(t)}

\* The rows of t that belong to vocabulary_id i, as a bag.
RowsOfId(t, i) ==
    [r \in {x \in BagToSet(t) : x.vocabulary_id = i} |-> t[r]]

Min(S) == CHOOSE x \in S : \A y \in S : x <= y

\* The empty map.
NoMap == <<>>

\* The maps a fetch can decode, HashMap<i64, String>: the first n ids, all
\* with the same text.
Snapshots == {[i \in 1..n |-> s] : n \in 0..MaxId, s \in {"a", "b"}}

\* The permutations of a finite set, as sequences.
Perms(S) ==
    {f \in [1..Cardinality(S) -> S] : \A a, b \in 1..Cardinality(S) : f[a] = f[b] => a = b}

NoResult == [ok |-> FALSE, variant |-> "none", cause |-> <<>>]
OkResult == [ok |-> TRUE, variant |-> "Ok", cause |-> <<>>]
\* An Err(CrudError): variant is the CrudError variant, cause the error it wraps.
ErrResult(variant, cause) == [ok |-> FALSE, variant |-> variant, cause |-> cause]


(***************************************************************************)
(* delete_duplicated_items: the DELETE statement of update_data.rs:92-108. *)
(***************************************************************************)
\* The translations of vocabulary_id i in language l, with their multiplicity.
TextsOf(t, i, l) ==
    [s \in {r.vocabulary_translation :
              r \in {x \in BagToSet(t) : x.vocabulary_id = i /\ x.language = l}}
       |-> t[Row(i, l, s)]]

\* Every order in which the elements of bag B can be listed.
RECURSIVE BagPerms(_)
BagPerms(B) ==
    IF BagToSet(B) = {} THEN {<<>>}
    ELSE UNION {{<<x>> \o p : p \in BagPerms(B (-) SetToBag({x}))} : x \in BagToSet(B)}

\* All the translations of vocabulary_id i, as a bag.
AllTextsOf(t, i) ==
    [s \in {r.vocabulary_translation : r \in {x \in BagToSet(t) : x.vocabulary_id = i}}
       |-> BagCardinality([r \in {x \in BagToSet(t) : x.vocabulary_id = i
                                       /\ x.vocabulary_translation = s} |-> t[r]])]

\* OrderByLanguage without the ORDER BY: the translations in any order.
Unordered(t, i, l) == BagPerms(AllTextsOf(t, i))

\* ORDER BY language: the translations of vocabulary_id i from language l on,
\* sorted by language; rows of the same language come in any order.
RECURSIVE OrderByLanguage(_, _, _)
OrderByLanguage(t, i, l) ==
    IF l > NumLangs THEN {<<>>}
    ELSE {p \o q : p \in BagPerms(TextsOf(t, i, l)), q \in OrderByLanguage(t, i, l + 1)}

\* STRING_AGG(vocabulary_translation, ', '): the texts joined by ", ".
RECURSIVE StringAgg(_)
StringAgg(ss) ==
    IF Len(ss) = 1 THEN ss[1] ELSE ss[1] \o ", " \o StringAgg(Tail(ss))

\* The values the aggregate "translations" can take for vocabulary_id i.
Translations(t, i) == {StringAgg(o) : o \in OrderByLanguage(t, i, 1)}

\* The inner subquery, GROUP BY vocabulary_id: one translations value per
\* vocabulary_id of the table.
Subquery(t) ==
    LET tr == [i \in IdsIn(t) |-> Translations(t, i)]
    IN  {f \in [DOMAIN tr -> UNION {tr[i] : i \in DOMAIN tr}] :
            \A i \in DOMAIN tr : f[i] \in tr[i]}

\* MinIds with MAX in place of MIN.
MaxIds(sg) ==
    {CHOOSE x \in {j \in DOMAIN sg : sg[j] = sg[i]} :
        \A y \in {j \in DOMAIN sg : sg[j] = sg[i]} : x >= y : i \in DOMAIN sg}

\* SELECT MIN(vocabulary_id) ... GROUP BY translations.
MinIds(sg) == {Min({j \in DOMAIN sg : sg[j] = sg[i]}) : i \in DOMAIN sg}

\* DeleteNotIn that deletes, of the vocabulary_ids not kept, the rows of the
\* first language only.
DeleteNotInFirstLang(t, keep) ==
    [r \in {x \in BagToSet(t) : x.vocabulary_id \in keep \/ x.language # 1} |-> t[r]]

\* DELETE FROM dictionary_items WHERE vocabulary_id NOT IN keep.
DeleteNotIn(t, keep) ==
    [r \in {x \in BagToSet(t) : x.vocabulary_id \in keep} |-> t[r]]


\* The effect of the DELETE statement when the subquery aggregates sg.
Reconcile(sg) ==
    /\ table' = DeleteNotIn(table, MinIds(sg))
    /\ pre' = table
    /\ sig' = sg
    /\ reconciled' = TRUE

(***************************************************************************)
(* update_dictionary, update_data.rs:32-48.                                *)
(***************************************************************************)
\* The language the loop of update_dictionary is at.
lang == order[li]

\* What the table may hold when a refresh starts.
PriorTables ==
    {EmptyBag,
     SetToBag({Row(1, 1, StaleText)}),
     SetToBag({Row(1, 1, StaleText), Row(MaxId, NumLangs, StaleText)})}

Init ==
    /\ table \in PriorTables
    /\ order \in Perms(Langs)
    /\ pc = "start"
    /\ li = 1
    /\ map = NoMap
    /\ pending = {}
    /\ batch = {}
    /\ inflight = {}
    /\ failed = {}
    /\ barPos = 0
    /\ result = NoResult
    /\ fetched = <<>>
    /\ written = {}
    /\ counts = <<>>
    /\ snap = <<>>
    /\ resets = 0
    /\ ndedup = 0
    /\ pre = EmptyBag
    /\ sig = <<>>
    /\ reconciled = FALSE

\* TruncateOk without the TRUNCATE: the rows stay in the table.
TruncateOkNoClear ==
    /\ pc = "start"
    /\ table' = table
    /\ resets' = resets + 1
    /\ pc' = "fetch"
    /\ UNCHANGED <<order, li, writerVars, result, fetched, written, counts, snap,
                   ndedup, pre, sig, reconciled>>

\* TruncateOk that clears the rows of the first language of the loop only.
TruncateOkOneLang ==
    /\ pc = "start"
    /\ table' = [r \in {x \in BagToSet(table) : x.language # order[1]} |-> table[r]]
    /\ resets' = resets + 1
    /\ pc' = "fetch"
    /\ UNCHANGED <<order, li, writerVars, result, fetched, written, counts, snap,
                   ndedup, pre, sig, reconciled>>

\* truncate_table(db).await? succeeds: TRUNCATE TABLE dictionary_items.
TruncateOk ==
    /\ pc = "start"
    /\ table' = EmptyBag
    /\ resets' = resets + 1
    /\ pc' = "fetch"
    /\ UNCHANGED <<order, li, writerVars, result, fetched, written, counts, snap,
                   ndedup, pre, sig, reconciled>>

\* TruncateErr with a partial clear: the rows of the first language of the
\* enum are gone when the statement fails.
TruncateErrPartial ==
    /\ pc = "start"
    /\ table' = [r \in {x \in BagToSet(table) : x.language # 1} |-> table[r]]
    /\ pc' = "failed"
    /\ result' = ErrResult("sqlx", <<"truncate">>)
    /\ UNCHANGED <<order, li, writerVars, histVars>>

\* truncate_table(db).await? fails: the statement changes nothing and the
\* error is returned.
TruncateErr ==
    /\ pc = "start"
    /\ pc' = "failed"
    /\ result' = ErrResult("sqlx", <<"truncate">>)
    /\ UNCHANGED <<table, order, li, writerVars, histVars>>

\* reqwest::get(url) and .json() succeed with map m; insert_items is entered:
\* len = map.len(), a new progress bar, the lazy iterator of queries.
FetchOk(m) ==
    /\ pc = "fetch"
    /\ map' = m
    /\ pending' = DOMAIN m
    /\ batch' = {}
    /\ inflight' = {}
    /\ failed' = {}
    /\ barPos' = 0
    /\ fetched' = Append(fetched, lang)
    /\ snap' = (lang :> m) @@ snap
    /\ pc' = "write"
    /\ UNCHANGED <<table, order, li, result, written, counts, resets, ndedup, pre,
                   sig, reconciled>>

\* FetchErr with the failed language skipped instead of the error returned.
FetchErrSkip(step) ==
    /\ pc = "fetch"
    /\ fetched' = Append(fetched, lang)
    /\ li' = li + 1
    /\ pc' = IF li = NumLangs THEN "dedup" ELSE "fetch"
    /\ UNCHANGED <<table, order, writerVars, result, written, counts, snap, resets,
                   ndedup, pre, sig, reconciled>>

\* reqwest::get(url) or .json() fails: map_err(CrudError::UpdateData)?.
FetchErr(step) ==
    /\ pc = "fetch"
    /\ fetched' = Append(fetched, lang)
    /\ pc' = "failed"
    /\ result' = ErrResult("UpdateData", <<step>>)
    /\ UNCHANGED <<table, order, li, writerVars, written, counts, snap, resets,
                   ndedup, pre, sig, reconciled>>

(***************************************************************************)
(* insert_items, update_data.rs:50-87.                                     *)
(***************************************************************************)
\* ChunkLen without the chunking: every query left is joined at once.
NoChunks(n) == n

\* The size of the next chunk of queries.chunks(ChunkSize).
ChunkLen(n) == IF n < ChunkSize THEN n ELSE ChunkSize

\* The INSERT of key i of the map in the language being written.
InsertedRow(i) == Row(i, lang, map[i])

\* NextChunk that joins the first chunk only and drops the other queries.
NextChunkOnlyFirst ==
    /\ pc = "write"
    /\ batch = {}
    /\ pending # {}
    /\ \E B \in SUBSET pending :
        /\ Cardinality(B) = ChunkLen(Cardinality(pending))
        /\ batch' = B
        /\ inflight' = B
        /\ failed' = {}
        /\ pending' = {}
    /\ UNCHANGED <<table, order, pc, li, map, barPos, result, histVars>>

\* The next chunk of the iterator: the map is a HashMap, so the chunk is any
\* ChunkSize of the keys left (all of them when fewer are left).  try_join_all
\* polls every future of the chunk, which sends its INSERT.
NextChunk ==
    /\ pc = "write"
    /\ batch = {}
    /\ pending # {}
    /\ \E B \in SUBSET pending :
        /\ Cardinality(B) = ChunkLen(Cardinality(pending))
        /\ batch' = B
        /\ inflight' = B
        /\ failed' = {}
        /\ pending' = pending \ B
    /\ UNCHANGED <<table, order, pc, li, map, barPos, result, histVars>>

\* InsertOk with the row inserted twice.
InsertOkTwice(i) ==
    /\ pc = "write"
    /\ table' = table (+) SetToBag({InsertedRow(i)}) (+) SetToBag({InsertedRow(i)})
    /\ inflight' = inflight \ {i}
    /\ barPos' = barPos + 1
    /\ UNCHANGED <<order, pc, li, map, pending, batch, failed, result, histVars>>

\* The INSERT of key i succeeds; bar.inc(1).
InsertOk(i) ==
    /\ pc = "write"
    /\ table' = table (+) SetToBag({InsertedRow(i)})
    /\ inflight' = inflight \ {i}
    /\ barPos' = barPos + 1
    /\ UNCHANGED <<order, pc, li, map, pending, batch, failed, result, histVars>>

\* InsertErr without the bar.inc(1).
InsertErrNoInc(i) ==
    /\ pc = "write"
    /\ inflight' = inflight \ {i}
    /\ failed' = failed \cup {i}
    /\ barPos' = barPos
    /\ UNCHANGED <<table, order, pc, li, map, pending, batch, result, histVars>>

\* The INSERT of key i fails; bar.inc(1); the future resolves to the error.
InsertErr(i) ==
    /\ pc = "write"
    /\ inflight' = inflight \ {i}
    /\ failed' = failed \cup {i}
    /\ barPos' = barPos + 1
    /\ UNCHANGED <<table, order, pc, li, map, pending, batch, result, histVars>>

\* try_join_all(chunk).await is Ok: every future of the chunk resolved to Ok.
JoinOk ==
    /\ pc = "write"
    /\ batch # {}
    /\ inflight = {}
    /\ failed = {}
    /\ batch' = {}
    /\ UNCHANGED <<table, order, pc, li, map, pending, inflight, failed, barPos,
                   result, histVars>>

\* Awaited as join_all would have it: every unfinished future is waited for.
AwaitAll(unfinished) == unfinished

\* The futures try_join_all still waits for when it finds an error.
Awaited(unfinished) == {}

\* JoinErr with a compensating delete of the rows of the language.
JoinErrRollback(e, sent) ==
    /\ pc = "write"
    /\ Awaited(inflight) = {}
    /\ table' = [r \in {x \in BagToSet(table) : x.language # order[li]} |-> table[r]]
    /\ inflight' = {}
    /\ pc' = "failed"
    /\ result' = ErrResult("sqlx", <<"insert", order[li], e>>)
    /\ UNCHANGED <<order, li, map, pending, batch, failed, barPos, histVars>>

\* try_join_all(chunk).await? is Err: polled with the future of key e resolved
\* to an error, try_join_all returns that error at once and drops the futures
\* that have not finished.  A dropped INSERT that had reached the server (sent)
\* is still executed; the others never are.  The error is returned through
\* insert_items and update_dictionary.
JoinErr(e, sent) ==
    /\ pc = "write"
    /\ Awaited(inflight) = {}
    /\ table' = table (+) SetToBag({InsertedRow(i) : i \in sent})
    /\ inflight' = {}
    /\ pc' = "failed"
    /\ result' = ErrResult("sqlx", <<"insert", lang, e>>)
    /\ UNCHANGED <<order, li, map, pending, batch, failed, barPos, histVars>>

\* WriteReturn with the reconciliation called inside the loop, after each
\* language.
WriteReturnThenDedup ==
    /\ pc = "write"
    /\ batch = {}
    /\ pending = {}
    /\ barPos' = Cardinality(DOMAIN map)
    /\ counts' = (lang :> Cardinality(DOMAIN map)) @@ counts
    /\ written' = written \cup {lang}
    /\ li' = li + 1
    /\ pc' = "dedup"
    /\ UNCHANGED <<table, order, map, pending, batch, inflight, failed, result,
                   fetched, snap, resets, ndedup, pre, sig, reconciled>>

\* WriteReturn with the loop staying at the same language.
WriteReturnSameLang ==
    /\ pc = "write"
    /\ batch = {}
    /\ pending = {}
    /\ barPos' = Cardinality(DOMAIN map)
    /\ counts' = (lang :> Cardinality(DOMAIN map)) @@ counts
    /\ written' = written \cup {lang}
    /\ li' = li
    /\ pc' = IF li = NumLangs THEN "dedup" ELSE "fetch"
    /\ UNCHANGED <<table, order, map, pending, batch, inflight, failed, result,
                   fetched, snap, resets, ndedup, pre, sig, reconciled>>

\* Every chunk is done: bar.finish(), Ok(len); the loop goes to the next
\* language, or to delete_duplicated_items after the last one.
WriteReturn ==
    /\ pc = "write"
    /\ batch = {}
    /\ pending = {}
    /\ barPos' = Cardinality(DOMAIN map)
    /\ counts' = (lang :> Cardinality(DOMAIN map)) @@ counts
    /\ written' = written \cup {lang}
    /\ li' = li + 1
    /\ pc' = IF li = NumLangs THEN "dedup" ELSE "fetch"
    /\ UNCHANGED <<table, order, map, pending, batch, inflight, failed, result,
                   fetched, snap, resets, ndedup, pre, sig, reconciled>>

\* delete_duplicated_items(db).await? succeeds; Ok(()).
DedupOk ==
    /\ pc = "dedup"
    /\ \E sg \in Subquery(table) : Reconcile(sg)
    /\ ndedup' = ndedup + 1
    /\ pc' = "done"
    /\ result' = OkResult
    /\ UNCHANGED <<order, li, writerVars, fetched, written, counts, snap, resets>>

\* delete_duplicated_items(db).await? fails: the statement changes nothing.
DedupErr ==
    /\ pc = "dedup"
    /\ pc' = "failed"
    /\ result' = ErrResult("sqlx", <<"delete">>)
    /\ UNCHANGED <<table, order, li, writerVars, histVars>>

Next ==
    \/ TruncateOk
    \/ TruncateErr
    \/ \E m \in Snapshots : FetchOk(m)
    \/ \E step \in {"get", "json"} : FetchErr(step)
    \/ NextChunk
    \/ \E i \in inflight : InsertOk(i)
    \/ \E i \in inflight : InsertErr(i)
    \/ JoinOk
    \/ \E e \in failed : \E sent \in SUBSET inflight : JoinErr(e, sent)
    \/ WriteReturn
    \/ DedupOk
    \/ DedupErr

Spec == Init /\ [][Next]_vars

\* A step of insert_items.
WriterStep ==
    \/ NextChunk
    \/ \E i \in inflight : InsertOk(i)
    \/ \E i \in inflight : InsertErr(i)
    \/ JoinOk
    \/ \E e \in failed : \E sent \in SUBSET inflight : JoinErr(e, sent)
    \/ WriteReturn

\* The store answers every INSERT it is sent and the runtime polls a task that
\* can run: insert_items does not stay forever at a step it can take.
SpecFair == Spec /\ WF_vars(WriterStep)

(***************************************************************************)
(* test_delete_duplicate, update_data.rs:176-218: rows are inserted        *)
(* directly, then delete_duplicated_items runs.                            *)
(***************************************************************************)
InitRecon ==
    /\ table = EmptyBag
    /\ order = [k \in Langs |-> k]
    /\ pc = "test"
    /\ li = 1
    /\ map = NoMap
    /\ pending = {}
    /\ batch = {}
    /\ inflight = {}
    /\ failed = {}
    /\ barPos = 0
    /\ result = NoResult
    /\ fetched = <<>>
    /\ written = {}
    /\ counts = <<>>
    /\ snap = <<>>
    /\ resets = 0
    /\ ndedup = 0
    /\ pre = EmptyBag
    /\ sig = <<>>
    /\ reconciled = FALSE

\* INSERT INTO dictionary_items VALUES (r), before the reconciliation runs.
TestInsert(r) ==
    /\ pc = "test"
    /\ ~reconciled
    /\ BagCardinality(table) < MaxRows
    /\ table' = table (+) SetToBag({r})
    /\ UNCHANGED <<order, pc, li, writerVars, result, histVars>>

\* delete_duplicated_items(&db).await.unwrap().
TestDedup ==
    /\ pc = "test"
    /\ \E sg \in Subquery(table) : Reconcile(sg)
    /\ UNCHANGED <<order, pc, li, writerVars, result, fetched, written, counts,
                   snap, resets, ndedup>>

NextRecon ==
    \/ \E r \in AllRows : TestInsert(r)
    \/ TestDedup

SpecRecon == InitRecon /\ [][NextRecon]_vars


(***************************************************************************)
(* Properties of update_dictionary.                                        *)
(***************************************************************************)
\* An INSERT is issued in this step.
InsertIssued == inflight' \ inflight # {}
\* A fetch is issued in this step.
FetchIssued == fetched' # fetched
\* The set of the languages whose fetch was issued.
FetchedSet == {fetched[k] : k \in 1..Len(fetched)}

\* C1: in a run of update_dictionary the reset has completed before any fetch
\* or insert is issued; the reconciliation runs at most once, only after every
\* language of the catalog has been fetched and written successfully, and
\* exactly once in a run that returns Ok; no insert is issued once the
\* reconciliation has started.
C1_Phases ==
    /\ [](/\ ndedup <= 1
          /\ resets <= 1
          /\ (pc \in {"dedup", "done"} \/ ndedup = 1) =>
                /\ written = Langs
                /\ FetchedSet = Langs
                /\ DOMAIN snap = Langs
                /\ inflight = {} /\ pending = {} /\ failed = {}
          /\ result.ok => ndedup = 1 /\ pc = "done")
    /\ [][/\ (FetchIssued \/ InsertIssued) => resets = 1 /\ table' = table
          /\ InsertIssued => pc = "write" /\ ndedup = 0
          /\ ndedup' # ndedup => pc = "dedup"
          /\ pc \in {"dedup", "done"} => ~InsertIssued /\ ~FetchIssued]_vars

\* A run that returned Ok, in which the reconciliation found rows and deleted
\* some of them.
C1_Witness ==
    /\ pc = "done"
    /\ result.ok
    /\ ndedup = 1
    /\ table # EmptyBag
    /\ table # pre

\* A step of the run has failed: the reset, a fetch, or an insert of the write.
StepFailed ==
    \/ resets = 0 /\ pc # "start"
    \/ Len(fetched) > Cardinality(DOMAIN snap)
    \/ failed # {}

\* C2: a failure of the reset, of a fetch or of a write is terminal: from then
\* on no language is fetched, no insert and no reset is issued, no language
\* is written, the reconciliation does not run and the run never returns Ok;
\* when update_dictionary has returned, it returned an error; and when a fetch
\* failed, no insert for that language was issued.
C2_FailureTerminal ==
    /\ [](/\ StepFailed => /\ ~result.ok
                           /\ ndedup = 0
                           /\ pc \in {"write", "failed"}
          /\ pc = "failed" => result.variant \in {"sqlx", "UpdateData"}
          /\ (pc = "failed" /\ result.variant = "UpdateData") =>
                /\ RowsOfLang(table, lang) = EmptyBag
                /\ lang \notin DOMAIN snap
                /\ lang \notin written)
    /\ [][StepFailed => /\ ~FetchIssued
                        /\ ~InsertIssued
                        /\ written' = written
                        /\ resets' = resets
                        /\ ndedup' = ndedup
                        /\ StepFailed']_vars

\* The fetch of the second language failed after the first language was
\* written.
C2_Witness ==
    /\ pc = "failed"
    /\ result.variant = "UpdateData"
    /\ li = 2
    /\ table # EmptyBag


(***************************************************************************)
(* Properties of delete_duplicated_items.                                  *)
(***************************************************************************)
\* The vocabulary_ids of pre that the reconciliation grouped with i.
SigGroup(i) == {j \in IdsIn(pre) : sig[j] = sig[i]}

\* The languages in which vocabulary_id i has a row.
LangsOf(t, i) == {r.language : r \in BagToSet(RowsOfId(t, i))}

\* Vocabulary_id i has at most one row per language.
OneRowPerLanguage(t, i) == \A l \in Langs : BagCardinality(TextsOf(t, i, l)) <= 1

\* The translations of a vocabulary_id that has one row per language, in
\* ascending order of language.
InLanguageOrder(t, i) ==
    [k \in 1..Cardinality(LangsOf(t, i)) |->
        LET l == CHOOSE x \in LangsOf(t, i) :
                    Cardinality({y \in LangsOf(t, i) : y < x}) = k - 1
        IN  CHOOSE s \in BagToSet(TextsOf(t, i, l)) : TRUE]

\* C3: after the reconciliation of any table, for every signature (the
\* translations of a vocabulary_id joined in language order, as the statement
\* aggregated them) the rows of the smallest vocabulary_id that had the
\* signature all remain and every row of every other vocabulary_id with that
\* signature is deleted; a vocabulary_id whose signature is unique keeps its
\* rows.
C3_MinOfSignatureSurvives ==
    reconciled =>
        /\ DOMAIN sig = IdsIn(pre)
        /\ \A i \in IdsIn(pre) :
            LET group == SigGroup(i)
                least == Min(group)
            IN  /\ sig[i] \in Translations(pre, i)
                /\ OneRowPerLanguage(pre, i) => sig[i] = StringAgg(InLanguageOrder(pre, i))
                /\ RowsOfId(table, least) = RowsOfId(pre, least)
                /\ \A j \in group \ {least} : RowsOfId(table, j) = EmptyBag
                /\ group = {i} => RowsOfId(table, i) = RowsOfId(pre, i)

\* Three vocabulary_ids, two of them with the same signature: the larger of
\* the two is deleted, the other two remain.
C3_Witness ==
    /\ reconciled
    /\ Cardinality(IdsIn(pre)) = 3
    /\ Cardinality(IdsIn(table)) = 2
    /\ \E i \in IdsIn(pre) : SigGroup(i) = {i}

\* Vocabulary_ids i and j have the same languages present and the same
\* translations in each.
SameTranslations(t, i, j) == \A l \in Langs : TextsOf(t, i, l) = TextsOf(t, j, l)

\* Vocabulary_ids i and j have the same translations in every language that
\* both have.
SameInSharedLanguages(t, i, j) ==
    \A l \in LangsOf(t, i) \cap LangsOf(t, j) : TextsOf(t, i, l) = TextsOf(t, j, l)

\* C4: the reconciliation treats two vocabulary_ids as equivalent only if
\* both have the same languages present and the same translation in each: a
\* vocabulary_id is deleted only if a smaller one is equivalent to it in that
\* sense.
C4_OnlyEquivalentCollide ==
    reconciled =>
        \A j \in IdsIn(pre) :
            j \notin IdsIn(table) =>
                \E i \in IdsIn(pre) : i < j /\ SameTranslations(pre, i, j)

\* C5, as claimed: of any two rows with different vocabulary_ids whose
\* translations are the same in every language both have, exactly one
\* survives, the one with the smaller vocabulary_id.  Stated for the pairs
\* that moreover have the same languages present, one row per language.
C5_ExactlyOneSurvives ==
    reconciled =>
        \A r1, r2 \in BagToSet(pre) :
            (/\ r1.vocabulary_id < r2.vocabulary_id
             /\ SameInSharedLanguages(pre, r1.vocabulary_id, r2.vocabulary_id)
             /\ LangsOf(pre, r1.vocabulary_id) = LangsOf(pre, r2.vocabulary_id)
             /\ OneRowPerLanguage(pre, r1.vocabulary_id)
             /\ OneRowPerLanguage(pre, r2.vocabulary_id)) =>
                /\ r1 \in BagToSet(table)
                /\ r2 \notin BagToSet(table)

\* C5, amended: of any two vocabulary_ids that each have at most one row per
\* language, the same languages present and the same translation in each,
\* every row of the larger is deleted, and the rows of the smaller all remain
\* unless a still smaller vocabulary_id has the same signature, in which case
\* they are all deleted too.
C5_LargerOfEqualDeleted ==
    reconciled =>
        \A i, j \in IdsIn(pre) :
            (/\ i < j
             /\ OneRowPerLanguage(pre, i)
             /\ OneRowPerLanguage(pre, j)
             /\ SameTranslations(pre, i, j)) =>
                /\ RowsOfId(table, j) = EmptyBag
                /\ RowsOfId(table, i) =
                     IF \E k \in IdsIn(pre) : k < i /\ sig[k] = sig[i]
                     THEN EmptyBag ELSE RowsOfId(pre, i)

\* Three vocabulary_ids with the same translation in the same language: the
\* row of the smallest is all that is left, the middle one is deleted as well
\* as the largest.
C5_Witness ==
    /\ reconciled
    /\ Cardinality(IdsIn(pre)) = 3
    /\ \A i, j \in IdsIn(pre) : SameTranslations(pre, i, j) /\ OneRowPerLanguage(pre, i)
    /\ table = RowsOfId(pre, Min(IdsIn(pre)))


(***************************************************************************)
(* Properties of insert_items.                                             *)
(***************************************************************************)
\* The rows of the records of map m in language l, one per record.
SnapshotRows(l, m) == SetToBag({Row(i, l, m[i]) : i \in DOMAIN m})

\* C6: a write in which no insert fails terminates, returns the number N of
\* records of the snapshot, and has added to the table one row per record of
\* the snapshot in that language and nothing else, in whatever order the
\* inserts of a chunk complete.  (The rows are compared on the table as it is
\* until the reconciliation, and as the reconciliation found it after.)
C6_WriteComplete ==
    /\ [](\A l \in written :
            /\ counts[l] = Cardinality(DOMAIN snap[l])
            /\ RowsOfLang(IF ndedup = 0 THEN table ELSE pre, l) = SnapshotRows(l, snap[l])
            /\ BagCardinality(RowsOfLang(IF ndedup = 0 THEN table ELSE pre, l)) = counts[l])
    /\ [](pc = "write" => RowsOfLang(table, lang) \sqsubseteq SnapshotRows(lang, map))
    /\ ((pc = "write") ~> (pc # "write"))
    /\ [][(pc = "write" /\ pc' # "write" /\ failed = {}) => lang \in written']_vars

\* A snapshot that takes two chunks has been written.
C6_Witness ==
    /\ pc = "fetch"
    /\ \E l \in written :
        /\ counts[l] = MaxId
        /\ BagCardinality(RowsOfLang(table, l)) = MaxId

\* C7: when an insert of a chunk fails, insert_items returns the error of a
\* failed insert of that chunk, the first it finds; no insert of a later
\* chunk is issued; and no row is deleted: the rows of the earlier chunks and
\* those the failing chunk inserted stay in the table.
C7_WriteFailure ==
    /\ [](/\ failed \subseteq batch
          /\ (pc = "failed" /\ result.cause # <<>> /\ result.cause[1] = "insert") =>
                /\ result.variant = "sqlx"
                /\ result.cause[2] = lang
                /\ result.cause[3] \in failed
                /\ \A i \in DOMAIN map \ (pending \cup batch) :
                      CopiesIn(InsertedRow(i), table) = 1
                /\ \A i \in pending : CopiesIn(InsertedRow(i), table) = 0
                /\ lang \notin written)
    /\ [][(failed # {} \/ failed' # {}) =>
            /\ table \sqsubseteq table'
            /\ ~InsertIssued
            /\ pending' = pending]_vars

\* The first chunk failed after one of its inserts had succeeded: its row is
\* in the table and the second chunk was never issued.
C7_Witness ==
    /\ pc = "failed"
    /\ result.cause # <<>>
    /\ result.cause[1] = "insert"
    /\ pending # {}
    /\ BagCardinality(RowsOfLang(table, lang)) = 1

\* try_join_all returns an error in this step.
JoinErrStep == \E e \in failed : \E sent \in SUBSET inflight : JoinErr(e, sent)

\* C8, as claimed: when an insert of a chunk has failed, the writer reports
\* the failure only once every dispatched insert of the chunk has finished.
C8_BarrierWaitsForAll == [][(pc = "write" /\ pc' = "failed") => inflight = {}]_vars

\* C8, amended: when an insert of a chunk has failed, the writer can report
\* the failure at once, whatever inserts of the chunk are still in flight;
\* when it does, the unfinished inserts are dropped without being waited for
\* (the progress bar does not count them) and each of them is either executed
\* by the store or not at all.
C8_FailureNotAwaited ==
    /\ []((pc = "write" /\ failed # {}) => ENABLED JoinErrStep)
    /\ [][(pc = "write" /\ pc' = "failed") =>
            /\ failed # {}
            /\ inflight' = {}
            /\ barPos' = barPos
            /\ \E sent \in SUBSET inflight :
                  table' = table (+) SetToBag({InsertedRow(i) : i \in sent})]_vars

\* The failure was reported while an insert of the chunk had not finished:
\* fewer inserts have completed than were issued.
C8_Witness ==
    /\ pc = "failed"
    /\ result.cause # <<>>
    /\ result.cause[1] = "insert"
    /\ barPos < Cardinality(DOMAIN map) - Cardinality(pending)

\* C9: the chunks of a write are sequential and the concurrency is bounded by
\* the chunk size: an insert is issued only when no insert is in flight and
\* the previous chunk has been joined, at most ChunkSize inserts are in flight
\* at any moment, and all of them belong to the current chunk of the language
\* being written.
C9_BoundedConcurrency ==
    /\ [](/\ Cardinality(inflight) <= ChunkSize
          /\ Cardinality(batch) <= ChunkSize
          /\ inflight \subseteq batch
          /\ batch \subseteq DOMAIN map
          /\ inflight # {} => pc = "write" /\ lang \notin written)
    /\ [][InsertIssued => /\ inflight = {}
                          /\ batch = {}
                          /\ failed = {}
                          /\ inflight' = batch']_vars

\* The second chunk of a write is in flight after the first chunk completed.
C9_Witness ==
    /\ pc = "write"
    /\ inflight # {}
    /\ BagCardinality(RowsOfLang(table, lang)) = ChunkSize

\* C10, as claimed: the languages are fetched in the definition order of the
\* Language enum, the same in every run.
C10_DefinitionOrder == \A k \in 1..Len(fetched) : fetched[k] = k

\* C10, amended: the languages are processed strictly sequentially, each at
\* most once, in the iteration order of the hash map LANGUAGE_URL_MAPPING,
\* which is fixed once the map is built but need not be the definition order
\* of the enum: the fetch of a language is issued only after the write of
\* every language before it in that order has returned Ok.
C10_SequentialInMapOrder ==
    /\ [](/\ Len(fetched) <= NumLangs
          /\ fetched = SubSeq(order, 1, Len(fetched))
          /\ \A k \in 1..Len(fetched) : \A n \in 1..Len(fetched) :
                fetched[k] = fetched[n] => k = n
          /\ \A k \in 1..(Len(fetched) - 1) : fetched[k] \in written)
    /\ [][FetchIssued => /\ inflight = {} /\ batch = {} /\ pending = {}
                         /\ FetchedSet = written
                         /\ order' = order]_vars

\* The second language is being written in a run whose first language was not
\* the first of the enum.
C10_Witness ==
    /\ pc = "write"
    /\ Len(fetched) = 2
    /\ fetched[1] # 1
    /\ fetched[1] \in written

(***************************************************************************)
(* The error update_dictionary returns.                                    *)
(***************************************************************************)
\* The phases of a refresh: truncate_table, the fetch, insert_items,
\* delete_duplicated_items.
Phases == {"reset", "fetch", "write", "reconcile"}

\* The phase the operation that raised the returned error belongs to.
FailedPhase ==
    CASE result.cause[1] = "truncate" -> "reset"
      [] result.cause[1] \in {"get", "json"} -> "fetch"
      [] result.cause[1] = "insert" -> "write"
      [] result.cause[1] = "delete" -> "reconcile"

\* The language the failed phase was at; the reset and the reconciliation are
\* at no language (0).
FailedLang == IF FailedPhase \in {"fetch", "write"} THEN lang ELSE 0

\* The CrudError update_dictionary returns for a failure of phase ph at
\* language l.  A fetch error is wrapped as CrudError::UpdateData(e.into()),
\* and the reqwest error is taken to carry the url of the language.  An error
\* of truncate_table, insert_items or delete_duplicated_items is the
\* sqlx::Error converted by the ? operator: the conversion is given the
\* sqlx::Error only, neither the language nor the statement, and a
\* connection-level sqlx::Error (the pool timed out, the connection was
\* closed) is the same whatever statement was being executed.
CrudErrorAt(ph, l) ==
    IF ph = "fetch" THEN [variant |-> "UpdateData", url |-> l]
    ELSE [variant |-> "sqlx", url |-> 0]

\* The CrudError the failed run returned.
Returned == CrudErrorAt(FailedPhase, FailedLang)

\* C11: when update_dictionary fails, the error value it returns identifies
\* the language being processed and the phase that failed: no failure of
\* another phase, or of the same phase at another language, returns the same
\* value.
C11_ErrorIdentifiesLanguageAndPhase ==
    pc = "failed" =>
        /\ result.variant = Returned.variant
        /\ \A ph \in Phases : \A l \in Langs \cup {0} :
              (/\ (l = 0) = (ph \in {"reset", "reconcile"})
               /\ CrudErrorAt(ph, l) = Returned) =>
                    ph = FailedPhase /\ l = FailedLang

(***************************************************************************)
(* update_dictionary invoked again on the same table, the remote snapshots *)
(* unchanged.                                                              *)
(***************************************************************************)
\* update_dictionary has returned and is called again, by the same process or
\* by a new one, whose LANGUAGE_URL_MAPPING may iterate in another order.  The
\* table is as the previous run left it, snap keeps the snapshots fetched so
\* far, and resets goes on counting the TRUNCATE statements executed.
Restart ==
    /\ pc \in {"done", "failed"}
    /\ resets < MaxRuns
    /\ pc' = "start"
    /\ li' = 1
    /\ order' \in Perms(Langs)
    /\ result' = NoResult
    /\ map' = NoMap
    /\ pending' = {}
    /\ batch' = {}
    /\ inflight' = {}
    /\ failed' = {}
    /\ barPos' = 0
    /\ fetched' = <<>>
    /\ written' = {}
    /\ counts' = <<>>
    /\ pre' = EmptyBag
    /\ sig' = <<>>
    /\ reconciled' = FALSE
    /\ ndedup' = 0
    /\ UNCHANGED <<table, snap, resets>>

\* The remote snapshots are unchanged: a language that was fetched before is
\* fetched with the same map.
FetchUnchanged(m) ==
    /\ pc = "fetch"
    /\ lang \in DOMAIN snap => m = snap[lang]
    /\ FetchOk(m)

NextTwice ==
    \/ TruncateOk
    \/ TruncateErr
    \/ \E m \in Snapshots : FetchUnchanged(m)
    \/ \E step \in {"get", "json"} : FetchErr(step)
    \/ NextChunk
    \/ \E i \in inflight : InsertOk(i)
    \/ \E i \in inflight : InsertErr(i)
    \/ JoinOk
    \/ \E e \in failed : \E sent \in SUBSET inflight : JoinErr(e, sent)
    \/ WriteReturn
    \/ DedupOk
    \/ DedupErr
    \/ Restart

SpecTwice == Init /\ [][NextTwice]_vars

\* The rows of the snapshots s, one per record of each language.
Loaded(s) ==
    SetToBag(UNION {{Row(i, l, s[l][i]) : i \in DOMAIN s[l]} : l \in DOMAIN s})

\* The tables a single successful refresh can leave when the snapshots are s:
\* the reconciliation of the rows of the snapshots.
RefreshResults(s) ==
    {DeleteNotIn(Loaded(s), MinIds(sg)) : sg \in Subquery(Loaded(s))}

C13_OneRowPerIdAndLanguage ==
    (resets = 1 /\ ndedup = 0) =>
        \A i \in Ids : \A l \in Langs : BagCardinality(TextsOf(table, i, l)) <= 1

\* Every language is written with a full snapshot and the reconciliation is
\* about to start: each vocabulary_id has one row in each language.
C13_Witness ==
    /\ pc = "dedup"
    /\ resets = 1
    /\ ndedup = 0
    /\ \A i \in Ids : \A l \in Langs : BagCardinality(TextsOf(table, i, l)) = 1

\* C14: once the reset of a run has succeeded, at every later state of the
\* run, the state a failure leaves included, every row of the table was
\* inserted by the run (it is the row of a record of a snapshot the run
\* fetched, present at most once, and no row from before the reset remains),
\* and every language whose write has not started has no row.
C14_OnlyRowsOfThisRun ==
    resets = 1 =>
        /\ table \sqsubseteq Loaded(snap)
        /\ \A r \in BagToSet(table) : r.vocabulary_translation # StaleText
        /\ \A l \in Langs \ DOMAIN snap : RowsOfLang(table, l) = EmptyBag

\* The write of the first language failed after it had inserted rows: the
\* table holds rows of that language and none of the language not reached.
C14_Witness ==
    /\ pc = "failed"
    /\ resets = 1
    /\ li = 1
    /\ failed # {}
    /\ table # EmptyBag
    /\ DOMAIN snap # Langs

(***************************************************************************)
(* Properties of truncate_table.                                           *)
(***************************************************************************)
\* C15: when truncate_table succeeds the table has no row, whatever it held
\* before; when it fails the table is as it was, and the run issues no fetch
\* and no insert, before or after.
C15_ResetAllOrNothing ==
    /\ []((pc = "failed" /\ result.cause = <<"truncate">>) =>
            /\ fetched = <<>>
            /\ map = NoMap
            /\ batch = {}
            /\ inflight = {}
            /\ written = {})
    /\ [][/\ (pc = "start" /\ pc' = "fetch") =>
                /\ table' = EmptyBag
                /\ resets' = resets + 1
          /\ (pc = "start" /\ pc' = "failed") =>
                /\ table' = table
                /\ resets' = resets
                /\ result'.cause = <<"truncate">>
          /\ (pc = "start" \/ (pc = "failed" /\ result.cause = <<"truncate">>)) =>
                ~FetchIssued /\ ~InsertIssued]_vars

\* The reset failed on a table that held the rows an earlier run had loaded:
\* they are all still there.
C15_Witness ==
    /\ pc = "failed"
    /\ result.cause = <<"truncate">>
    /\ fetched = <<>>
    /\ DOMAIN snap = Langs
    /\ table = Loaded(snap)
    /\ table # EmptyBag

(***************************************************************************)
(* Properties of the progress bar of insert_items.                         *)
(***************************************************************************)
\* The keys of the map whose insert has completed, with a row or an error.
Completed == DOMAIN map \ (pending \cup inflight)

\* C16: during a write of N records the progress bar is incremented once for
\* each insert that completes, with a row or with an error, and at no other
\* step: its position is the number of inserts completed, in whatever order
\* the inserts of a chunk complete; it never exceeds N and is N when a write
\* without failure returns.  The rows inserted are those of the inserts that
\* completed without error and the value returned is N.
C16_ProgressCounter ==
    /\ [](/\ barPos <= Cardinality(DOMAIN map)
          /\ pc = "write" =>
                /\ barPos = Cardinality(Completed)
                /\ RowsOfLang(table, lang) =
                      SetToBag({InsertedRow(i) : i \in Completed \ failed})
          /\ \A l \in written : counts[l] = Cardinality(DOMAIN snap[l]))
    /\ [][/\ (pc = "write" /\ pc' = "write" /\ Completed' # Completed) =>
                /\ barPos' = barPos + 1
                /\ \E i \in inflight : Completed' = Completed \cup {i}
          /\ (pc = "write" /\ barPos' # barPos) =>
                /\ barPos' = barPos + 1
                /\ \E i \in inflight : inflight' = inflight \ {i}
          /\ (pc = "write" /\ pc' \in {"fetch", "dedup"}) =>
                /\ failed = {}
                /\ barPos = Cardinality(DOMAIN map)
                /\ barPos' = barPos
                /\ counts'[lang] = barPos]_vars

\* Every insert of a snapshot of MaxId records has completed, the last one
\* with an error: the bar is at MaxId.
C16_Witness ==
    /\ pc = "write"
    /\ failed # {}
    /\ Cardinality(DOMAIN map) = MaxId
    /\ barPos = MaxId

(***************************************************************************)
(* Two invocations of update_dictionary that overlap in time on the same   *)
(* table.  Nothing in update_data.rs takes a lock, so the statements of    *)
(* the two runs reach the store in any interleaving.  In SpecOverlap pc,   *)
(* li and result hold one value per invocation, both invocations fetch the *)
(* snapshots snap, and the fetch and the inserts of one language are one   *)
(* step: the interleavings of the statements inside that step are left out.*)
(***************************************************************************)
Runners == {"A", "B"}

InitOverlap ==
    /\ table \in PriorTables
    /\ order \in Perms(Langs)
    /\ pc = [r \in Runners |-> "start"]
    /\ li = [r \in Runners |-> 1]
    /\ map = NoMap
    /\ pending = {}
    /\ batch = {}
    /\ inflight = {}
    /\ failed = {}
    /\ barPos = 0
    /\ result = [r \in Runners |-> NoResult]
    /\ fetched = <<>>
    /\ written = {}
    /\ counts = <<>>
    /\ snap \in [Langs -> Snapshots]
    /\ resets = 0
    /\ ndedup = 0
    /\ pre = EmptyBag
    /\ sig = <<>>
    /\ reconciled = FALSE

\* truncate_table(db).await? of invocation r.
OverlapTruncate(r) ==
    /\ pc[r] = "start"
    /\ table' = EmptyBag
    /\ resets' = resets + 1
    /\ pc' = [pc EXCEPT ![r] = "fetch"]
    /\ UNCHANGED <<order, li, writerVars, result, fetched, written, counts, snap,
                   ndedup, pre, sig, reconciled>>

\* One iteration of the loop of invocation r: the fetch of the language and
\* insert_items, every INSERT of which succeeds.
OverlapWrite(r) ==
    /\ pc[r] = "fetch"
    /\ table' = table (+) SnapshotRows(order[li[r]], snap[order[li[r]]])
    /\ li' = [li EXCEPT ![r] = li[r] + 1]
    /\ pc' = [pc EXCEPT ![r] = IF li[r] = NumLangs THEN "dedup" ELSE "fetch"]
    /\ UNCHANGED <<order, writerVars, result, histVars>>

\* delete_duplicated_items(db).await? of invocation r; Ok(()).
OverlapDedup(r) ==
    /\ pc[r] = "dedup"
    /\ \E sg \in Subquery(table) : Reconcile(sg)
    /\ ndedup' = ndedup + 1
    /\ pc' = [pc EXCEPT ![r] = "done"]
    /\ result' = [result EXCEPT ![r] = OkResult]
    /\ UNCHANGED <<order, li, writerVars, fetched, written, counts, snap, resets>>

NextOverlap ==
    \/ \E r \in Runners : OverlapTruncate(r)
    \/ \E r \in Runners : OverlapWrite(r)
    \/ \E r \in Runners : OverlapDedup(r)

SpecOverlap == InitOverlap /\ [][NextOverlap]_vars

\* C17: when two overlapping invocations of update_dictionary have both
\* returned Ok, the table is the one a single refresh leaves for the same
\* snapshots: it holds at most one row per (vocabulary_id, language) pair and
\* no two vocabulary_ids of the same signature.
C17_OverlapCorrect ==
    (\A r \in Runners : pc[r] = "done") =>
        /\ table \in RefreshResults(snap)
        /\ \A i \in Ids : \A l \in Langs : BagCardinality(TextsOf(table, i, l)) <= 1
        /\ \A i, j \in IdsIn(table) :
              i # j => Translations(table, i) \cap Translations(table, j) = {}

(***************************************************************************)
(* Frame and idempotence of delete_duplicated_items.                       *)
(***************************************************************************)
\* The signatures the reconciliation aggregated for the vocabulary_ids of t.
SigsOf(t) == {sig[i] : i \in IdsIn(t)}

\* C18: the reconciliation acts on whole vocabulary_ids and changes nothing
\* else: of every vocabulary_id either all the rows remain, as they were, or
\* none; the table after is a part of the table before (no row is inserted or
\* updated); a table that had rows still has rows; and the signatures of the
\* vocabulary_ids left are the signatures of the table before.
C18_WholeIdsOnly ==
    reconciled =>
        /\ \A i \in Ids : RowsOfId(table, i) \in {RowsOfId(pre, i), EmptyBag}
        /\ table \sqsubseteq pre
        /\ pre # EmptyBag => table # EmptyBag
        /\ IdsIn(table) \subseteq IdsIn(pre)
        /\ SigsOf(table) = SigsOf(pre)
        /\ \A i \in IdsIn(table) : Translations(table, i) = Translations(pre, i)

\* A vocabulary_id with rows in two languages was deleted, both rows, and the
\* vocabulary_id with the same signature in one row is left.
C18_Witness ==
    /\ reconciled
    /\ table # EmptyBag
    /\ \E i \in IdsIn(pre) \ IdsIn(table) : BagCardinality(RowsOfId(pre, i)) = 2

\* C19: the reconciliation is idempotent: run again on the table a
\* reconciliation left, whatever that table is, delete_duplicated_items
\* deletes no row; on an empty table it deletes nothing.
C19_SecondPassDeletesNothing ==
    [][/\ reconciled => table' = table
       /\ table = EmptyBag => table' = EmptyBag \/ ~reconciled']_vars

=============================================================================
